---- MODULE Spec2Model ----
(***************************************************************************)
(* Model of scripts/predict_command_line.py of SynthSR: the command-line   *)
(* prediction script.  The script is a sequential pipeline; pc is the      *)
(* statement the interpreter is at.  Strings are sequences of one-char     *)
(* strings, floating-point voxels are exact rationals <<n, d>> (d > 0),    *)
(* with <<0, 0>> for NaN, and arrays are records [shape, v] where v is a   *)
(* function nested one level per spatial axis, indexed from 0.             *)
(***************************************************************************)
EXTENDS Integers, Sequences, FiniteSets, TLC

\* ------------------------------------------------------------------ bounds
\* the largest number of images a listed input folder holds
MaxImages == 2

\* ------------------------------------------------------- program constants
Mult == 32
Scale255 == 255
ClipHigh == 128
ClipLow == 0
CtHigh == 80
CtLow == 0

\* ----------------------------------------------------------------- strings
DotNii == <<".", "n", "i", "i">>
DotGz == <<".", "g", "z">>
DotMgz == <<".", "m", "g", "z">>
DotNpz == <<".", "n", "p", "z">>
DotTxt == <<".", "t", "x", "t">>
Tag == <<"_", "S", "y", "n", "t", "h", "S", "R">>
Slash == <<"/">>

\* Python: sub in s
Contains(s, sub) ==
    \E i \in 1..(Len(s) - Len(sub) + 1) : SubSeq(s, i, i + Len(sub) - 1) = sub

\* Python: s.endswith(sub)
EndsWith(s, sub) ==
    /\ Len(s) >= Len(sub)
    /\ SubSeq(s, Len(s) - Len(sub) + 1, Len(s)) = sub

\* Python: s.replace(old, new): every non-overlapping occurrence, left to right
RECURSIVE Replace(_, _, _)
Replace(s, old, new) ==
    IF Len(s) < Len(old) THEN s
    ELSE IF SubSeq(s, 1, Len(old)) = old
         THEN new \o Replace(SubSeq(s, Len(old) + 1, Len(s)), old, new)
         ELSE <<s[1]>> \o Replace(Tail(s), old, new)

\* position of the last "/" of a path, 0 when there is none
LastSlash(p) ==
    IF \E i \in 1..Len(p) : p[i] = "/"
    THEN CHOOSE i \in 1..Len(p) : p[i] = "/" /\ \A j \in (i + 1)..Len(p) : p[j] # "/"
    ELSE 0

\* os.path.basename, os.path.dirname, os.path.join
Basename(p) == SubSeq(p, LastSlash(p) + 1, Len(p))
Dirname(p) == SubSeq(p, 1, LastSlash(p) - 1)
Join(d, b) == d \o Slash \o b

\* --------------------------------------------------------------- rationals
RECURSIVE GCD(_, _)
GCD(a, b) == IF b = 0 THEN a ELSE GCD(b, a % b)
Abs(n) == IF n < 0 THEN -n ELSE n

NaN == <<0, 0>>
IsNaN(a) == a[2] = 0
Rat(n, d) ==
    IF d = 0 THEN NaN
    ELSE IF n = 0 THEN <<0, 1>>
    ELSE IF d = 1 THEN <<n, 1>>
    ELSE LET g == GCD(Abs(n), d) IN <<n \div g, d \div g>>
Zero == <<0, 1>>
Half == <<1, 2>>
RAdd(a, b) ==
    IF IsNaN(a) \/ IsNaN(b) THEN NaN
    ELSE IF a[1] = 0 THEN b
    ELSE IF b[1] = 0 THEN a
    ELSE Rat(a[1] * b[2] + b[1] * a[2], a[2] * b[2])
RSub(a, b) ==
    IF IsNaN(a) \/ IsNaN(b) THEN NaN
    ELSE IF b[1] = 0 THEN a
    ELSE Rat(a[1] * b[2] - b[1] * a[2], a[2] * b[2])
RMul(a, b) ==
    IF IsNaN(a) \/ IsNaN(b) THEN NaN
    ELSE IF a[1] = 0 \/ b[1] = 0 THEN Zero
    ELSE Rat(a[1] * b[1], a[2] * b[2])
\* IEEE division as numpy does it: 0/0 is NaN (a warning, no exception)
RDiv(a, b) ==
    IF IsNaN(a) \/ IsNaN(b) \/ b[1] = 0 THEN NaN
    ELSE IF b[1] > 0 THEN Rat(a[1] * b[2], a[2] * b[1])
    ELSE Rat(-(a[1] * b[2]), a[2] * (-b[1]))
\* comparisons are false as soon as one side is NaN
RLt(a, b) == ~IsNaN(a) /\ ~IsNaN(b) /\ a[1] * b[2] < b[1] * a[2]
RLe(a, b) == ~IsNaN(a) /\ ~IsNaN(b) /\ a[1] * b[2] <= b[1] * a[2]

Min2(a, b) == IF a < b THEN a ELSE b

\* ------------------------------------------------------------------ arrays
\* an array of spatial shape s whose voxel (x, y, z) is F(x, y, z)
Arr3(s, F(_, _, _)) ==
    [x \in 0..(s[1] - 1) |-> [y \in 0..(s[2] - 1) |-> [z \in 0..(s[3] - 1) |-> F(x, y, z)]]]

NoArray == [shape |-> <<>>, v |-> <<>>]

\* the set of voxel values of a 3-D array
Values(A) ==
    {A.v[x][y][z] : x \in 0..(A.shape[1] - 1), y \in 0..(A.shape[2] - 1),
                    z \in 0..(A.shape[3] - 1)}

\* np.min, np.max: NaN as soon as one voxel is NaN
NpMin(A) ==
    LET vs == Values(A)
    IN  IF \E a \in vs : IsNaN(a) THEN NaN ELSE CHOOSE m \in vs : \A a \in vs : RLe(m, a)
NpMax(A) ==
    LET vs == Values(A)
    IN  IF \E a \in vs : IsNaN(a) THEN NaN ELSE CHOOSE m \in vs : \A a \in vs : RLe(a, m)

\* the spatial axes of an array: all three of a volume, axes 1..3 of a
\* (1, d0, d1, d2, 1) batch
Spatial(A) == IF Len(A.shape) = 5 THEN SubSeq(A.shape, 2, 4) ELSE A.shape

\* elementwise map
Map3(A, F(_)) ==
    [shape |-> A.shape, v |-> Arr3(Spatial(A), LAMBDA x, y, z : F(A.v[x][y][z]))]

\* ------------------------------------------------------- the file system
\* Voxel patterns of the stored volumes (integer intensities).
Pat(p, x, y, z) ==
    CASE p = "flat0" -> 0
      [] p = "flat90" -> 90
      [] p = "ramp" -> x + 2 * y + 3 * z
      [] p = "wide" -> 50 * (x + y + z) - 20
      [] OTHER -> 3 * x - y + 7

\* The volumes a file may hold: shape, voxel pattern, voxel size in mm per
\* axis, and the permutation that takes the stored axes to the reference axes.
Volumes ==
    << [shape |-> <<1, 1, 1>>, pat |-> "flat0", vox |-> <<1, 1, 1>>, orient |-> <<1, 2, 3>>],
       [shape |-> <<2, 1, 3>>, pat |-> "ramp", vox |-> <<1, 1, 1>>, orient |-> <<2, 1, 3>>],
       [shape |-> <<2, 2, 1>>, pat |-> "flat90", vox |-> <<1, 2, 1>>, orient |-> <<1, 2, 3>>],
       [shape |-> <<1, 2, 2>>, pat |-> "wide", vox |-> <<1, 1, 1>>, orient |-> <<3, 1, 2>>],
       [shape |-> <<32, 1, 2>>, pat |-> "ramp", vox |-> <<1, 1, 1>>, orient |-> <<1, 2, 3>>],
       [shape |-> <<33, 1, 1>>, pat |-> "mixed", vox |-> <<1, 1, 1>>, orient |-> <<1, 3, 2>>],
       [shape |-> <<1, 31, 1>>, pat |-> "wide", vox |-> <<1, 1, 2>>, orient |-> <<1, 2, 3>>] >>

\* The networks a weights file may hold: voxel s at first-axis position x is
\* mapped to a * s + b + c * x.  A NaN input gives a NaN output.
Nets ==
    << [a |-> <<-1, 1>>, b |-> <<1, 5>>, c |-> <<0, 1>>],
       [a |-> <<2, 3>>, b |-> <<-1, 255>>, c |-> <<1, 255>>] >>

\* ---------------------------------------------------- external libraries
\* utils.load_volume(path, im_only=False, dtype='float'): the stored voxels
\* as floats and the stored affine
LoadVolume(vol) ==
    [im |-> [shape |-> vol.shape,
             v |-> Arr3(vol.shape, LAMBDA x, y, z : <<Pat(vol.pat, x, y, z), 1>>)],
     aff |-> [vox |-> vol.vox, orient |-> vol.orient]]

\* edit_volumes.resample_volume(im, aff, [1, 1, 1]): resampling to 1 mm
\* voxels, nearest neighbour
ResampleVolume(A, af) ==
    LET s == [i \in 1..3 |-> A.shape[i] * af.vox[i]]
    IN  [im |-> [shape |-> s,
                 v |-> Arr3(s, LAMBDA x, y, z :
                          A.v[x \div af.vox[1]][y \div af.vox[2]][z \div af.vox[3]])],
         aff |-> [vox |-> <<1, 1, 1>>, orient |-> af.orient]]

\* edit_volumes.align_volume_to_ref(im, aff, aff_ref=np.eye(4), return_aff=True):
\* axis i of the result is axis aff.orient[i] of im; the new affine is aligned
AlignVolumeToRef(A, af) ==
    LET o == af.orient
        s == [i \in 1..3 |-> A.shape[o[i]]]
        src(c, j) == c[CHOOSE i \in 1..3 : o[i] = j]
    IN  [im |-> [shape |-> s,
                 v |-> Arr3(s, LAMBDA x, y, z :
                          A.v[src(<<x, y, z>>, 1)][src(<<x, y, z>>, 2)][src(<<x, y, z>>, 3)])],
         aff |-> [vox |-> af.vox, orient |-> <<1, 2, 3>>]]

\* unet_model.predict(A) with the loaded weights: same shape as the input
NetOut(net, s, x) == RAdd(RAdd(RMul(net.a, s), net.b), RMul(net.c, <<x, 1>>))
Predict(net, A) ==
    [shape |-> A.shape,
     v |-> Arr3(Spatial(A), LAMBDA x, y, z : NetOut(net, A.v[x][y][z], x))]

\* the extensions utils.load_volume and utils.list_images_in_folder accept
HasSupportedExt(name) ==
    \/ EndsWith(name, DotNii)
    \/ EndsWith(name, DotNii \o DotGz)
    \/ EndsWith(name, DotMgz)
    \/ EndsWith(name, DotNpz)

\* ------------------------------------------- the script's own computations
\* the test of line 101 without its '.npz' operand
DirectoryCaseNoNpz(basename) ==
    /\ ~Contains(basename, DotNii \o DotGz)
    /\ ~Contains(basename, DotNii)
    /\ ~Contains(basename, DotMgz)

\* line 101: none of the four substrings occurs in the basename
DirectoryCase(basename) ==
    /\ ~Contains(basename, DotNii \o DotGz)
    /\ ~Contains(basename, DotNii)
    /\ ~Contains(basename, DotMgz)
    /\ ~Contains(basename, DotNpz)

\* line 108: join, basename and the first replace, for one image
JoinAndTagNii(dir, image) == Replace(Join(dir, Basename(image)), DotNii, Tag \o DotNii)
\* line 109
TagMgz(seg_path) == Replace(seg_path, DotMgz, Tag \o DotMgz)
\* line 110
TagNpz(seg_path) == Replace(seg_path, DotNpz, Tag \o DotNpz)
\* lines 108-110: the list of output paths of directory mode
PredictionPaths(dir, images) ==
    [k \in 1..Len(images) |-> TagNpz(TagMgz(JoinAndTagNii(dir, images[k])))]

\* line 120: zip stops with the shorter list
Zip(a, b) == [k \in 1..Min2(Len(a), Len(b)) |-> <<a[k], b[k]>>]

\* lines 128-129: im[im < 0] = 0; im[im > 80] = 80
CtClipLow(a) == IF RLt(a, <<CtLow, 1>>) THEN <<CtLow, 1>> ELSE a
CtClipHigh(a) == IF RLt(<<CtHigh, 1>>, a) THEN <<CtHigh, 1>> ELSE a
CtClip(A) == Map3(Map3(A, CtClipLow), CtClipHigh)

\* line 138: im = im - np.min(im)
SubtractMin(A) == LET m == NpMin(A) IN Map3(A, LAMBDA a : RSub(a, m))
\* line 139: im = im / np.max(im)
DivideByMax(A) == LET m == NpMax(A) IN Map3(A, LAMBDA a : RDiv(a, m))
Normalize(A) == DivideByMax(SubtractMin(A))

\* line 142: I = im[np.newaxis, ..., np.newaxis]
AddAxes(A) == [shape |-> <<1>> \o A.shape \o <<1>>, v |-> A.v]

\* rounding up by adding one to the floor
CeilDivOffByOne(n, m) == (n \div m) + 1

\* np.ceil(n / m) and np.floor(n / m) of integers n, m > 0
CeilDiv(n, m) == -((-n) \div m)
FloorDiv(n, m) == n \div m

\* line 143: W = (np.ceil(np.array(I.shape[1:-1]) / 32.0) * 32).astype('int')
PadShape(Ishape) == [i \in 1..3 |-> CeilDiv(Ishape[i + 1], Mult) * Mult]
\* line 144: idx = np.floor((W - I.shape[1:-1]) / 2).astype('int')
PadOffset(Wv, Ishape) == [i \in 1..3 |-> FloorDiv(Wv[i] - Ishape[i + 1], 2)]
\* lines 145-146: S = np.zeros([1, *W, 1]); S[0, window, :] = I
PadVolume(Wv, off, Iv) ==
    [shape |-> <<1>> \o Wv \o <<1>>,
     v |-> Arr3(Wv, LAMBDA x, y, z :
              IF /\ off[1] <= x /\ x < off[1] + Iv.shape[2]
                 /\ off[2] <= y /\ y < off[2] + Iv.shape[3]
                 /\ off[3] <= z /\ z < off[3] + Iv.shape[4]
              THEN Iv.v[x - off[1]][y - off[2]][z - off[3]]
              ELSE Zero)]

\* a flip along the axis after the one asked for
FlipNextAxis(A, axis) ==
    LET s == Spatial(A)
    IN  [shape |-> A.shape,
         v |-> Arr3(s, LAMBDA x, y, z :
                  A.v[x][IF axis = 1 THEN s[2] - 1 - y ELSE y][z])]

\* np.flip(A, axis): axis counts the five axes of the batch from 0; axes 0
\* and 4 have length 1
Flip(A, axis) ==
    LET s == Spatial(A)
    IN  [shape |-> A.shape,
         v |-> Arr3(s, LAMBDA x, y, z :
                  A.v[IF axis = 1 THEN s[1] - 1 - x ELSE x]
                     [IF axis = 2 THEN s[2] - 1 - y ELSE y]
                     [IF axis = 3 THEN s[3] - 1 - z ELSE z])]
FlipAxis == 1

\* line 153: 0.5 * p + 0.5 * q
Average(P, Q) ==
    [shape |-> P.shape,
     v |-> Arr3(Spatial(P), LAMBDA x, y, z :
              RAdd(RMul(Half, P.v[x][y][z]), RMul(Half, Q.v[x][y][z])))]

\* line 156: np.squeeze drops every axis of length 1
Squeeze(A) == [shape |-> SelectSeq(A.shape, LAMBDA n : n # 1), v |-> A.v]
\* line 157: pred = 255 * pred
ScalePred(A) == Map3(A, LAMBDA a : RMul(<<Scale255, 1>>, a))
\* line 158: pred[pred < 0] = 0
ClipBelow(a) == IF RLt(a, <<ClipLow, 1>>) THEN <<ClipLow, 1>> ELSE a
\* line 159: pred[pred > 128] = 128
ClipAbove(a) == IF RLt(<<ClipHigh, 1>>, a) THEN <<ClipHigh, 1>> ELSE a
ClipPred(A) == Map3(Map3(A, ClipBelow), ClipAbove)

\* a Python slice lo:hi of an axis of length n (0 <= lo <= hi): clamped to n
SliceLo(lo, n) == Min2(lo, n)
SliceHi(hi, n) == Min2(hi, n)
\* line 160: pred[idx[0]:idx[0] + I.shape[1], idx[1]:..., idx[2]:...]
Crop(A, off, Ishape) ==
    LET lo == [i \in 1..3 |-> SliceLo(off[i], A.shape[i])]
        hi == [i \in 1..3 |-> SliceHi(off[i] + Ishape[i + 1], A.shape[i])]
        s == [i \in 1..3 |-> hi[i] - lo[i]]
    IN  [shape |-> s,
         v |-> Arr3(s, LAMBDA x, y, z : A.v[lo[1] + x][lo[2] + y][lo[3] + z])]

\* ------------------------------------------------------------------- state
VARIABLES
    pc,                 \* the statement the script is at
    args,               \* the parsed command line
    fs,                 \* the file system: what path_images is and holds
    unet_model,         \* [built, weights]: the model and the weight files loaded
    images_to_segment,  \* list of input paths
    path_predictions,   \* the output argument, then the list of output paths
    made,               \* directories created by utils.mkdir
    it,                 \* position of the enumerate iterator of line 120
    idx,                \* loop counter, then the padding offsets (line 144)
    path_image, path_prediction,
    im, aff, aff2, I, W, S,
    tmp,                \* results of the predict calls of line 153 so far
    output, pred,
    calls,              \* inputs of the predict calls made for the current image
    saved,              \* what utils.save_volume wrote: [path, vol, aff]
    log,                \* the steps taken so far, <<step, image number>>
    err                 \* the uncaught exception, "" when none

vars == <<pc, args, fs, unet_model, images_to_segment, path_predictions, made, it, idx,
          path_image, path_prediction, im, aff, aff2, I, W, S, tmp, output, pred, calls,
          saved, log, err>>

loopVars == <<it, idx, path_image, path_prediction>>
volVars == <<im, aff, aff2, I, W, S, tmp, output, pred, calls>>
listVars == <<images_to_segment, path_predictions, made>>

\* ------------------------------------------------------------------ inputs
\* The command line is parsed before the first step; paths are given
\* absolute, so that os.path.abspath (lines 91, 93) leaves them as they are.
\* --cpu and --threads only configure the framework and are left out.
Stem == <<"a">>
InDir == <<"/", "i">>
OutPlain == <<"/", "o">>
OutDotted == <<"/", "o">> \o DotMgz
UserModel == <<"/", "m", ".", "h", "5">>
DefaultModel == <<"/", "h", "/", "S", "R", ".", "h", "5">>
NoAff == [vox |-> <<>>, orient |-> <<>>]

\* basenames given as path_images
PathNames ==
    { Stem, Stem \o DotTxt, Stem \o DotGz,
      Stem \o DotNii, Stem \o DotNii \o DotGz, Stem \o DotMgz, Stem \o DotNpz,
      Stem \o DotTxt \o DotNpz,
      Stem \o DotNii \o DotTxt, Stem \o DotMgz \o DotGz, Stem \o DotNpz \o DotTxt }

\* names of the images of a listed folder, in listing order
FolderNames ==
    << Stem \o DotNii, Stem \o DotNii \o DotGz, Stem \o DotMgz, Stem \o DotNpz,
       Stem \o DotMgz \o DotNii >>

\* the n entries of list l from position j on, wrapping around
Window(l, j, n) == [k \in 1..n |-> l[((j + k - 2) % Len(l)) + 1]]

Fresh(a, f) ==
    /\ pc = "build"
    /\ args = a
    /\ fs = f
    /\ unet_model = [built |-> FALSE, weights |-> <<>>]
    /\ images_to_segment = <<>>
    /\ path_predictions = a.path_predictions
    /\ made = {}
    /\ it = 0
    /\ idx = 0
    /\ path_image = <<>>
    /\ path_prediction = <<>>
    /\ im = NoArray /\ I = NoArray /\ S = NoArray /\ output = NoArray /\ pred = NoArray
    /\ aff = NoAff /\ aff2 = NoAff
    /\ W = <<>>
    /\ tmp = <<>>
    /\ calls = <<>>
    /\ saved = <<>>
    /\ log = <<>>
    /\ err = ""

\* any path name, as a file, a folder or nothing; one small volume per file
PathsFamily(flags, models) ==
    \E name \in PathNames, kind \in {"file", "dir", "missing"}, nf \in flags, model \in models :
        Fresh([path_images |-> Join(InDir, name), path_predictions |-> OutPlain,
               ct |-> FALSE, model |-> model, disable_flipping |-> nf],
              [kind |-> kind,
               listing |-> IF kind = "dir" THEN <<FolderNames[1]>> ELSE <<>>,
               content |-> IF kind = "missing" THEN <<>> ELSE <<2>>,
               net |-> 1])
InitPaths == PathsFamily(BOOLEAN, {<<>>, UserModel})
InitCommon == PathsFamily({TRUE}, {UserModel})

\* one image file, any volume, any flags
InitVolumes ==
    \E v \in 1..Len(Volumes), ct \in BOOLEAN, nf \in BOOLEAN, net \in {2} :
        Fresh([path_images |-> Join(InDir, Stem \o DotNii),
               path_predictions |-> Join(OutPlain, Stem \o DotMgz),
               ct |-> ct, model |-> <<>>, disable_flipping |-> nf],
              [kind |-> "file", listing |-> <<>>, content |-> <<v>>, net |-> net])

\* a folder of up to MaxImages images; an output folder with a dotted name is
\* tried with one image
InitFolders ==
    \E j \in 1..Len(FolderNames), n \in 1..MaxImages, nf \in BOOLEAN,
       out \in {OutPlain, OutDotted} :
        /\ out = OutDotted => n = 1 /\ nf
        /\ Fresh([path_images |-> Join(InDir, Stem), path_predictions |-> out,
                  ct |-> FALSE, model |-> <<>>, disable_flipping |-> nf],
                 [kind |-> "dir", listing |-> Window(FolderNames, j, n),
                  content |-> Window(<<1, 2, 3, 4>>, j, n), net |-> 2])

Init == InitVolumes \/ InitCommon

\* ----------------------------------------------------------------- actions
Event(step, k) == log' = Append(log, <<step, k>>)

\* lines 68-81: nrn_models.unet(...)
BuildUnet ==
    /\ pc = "build"
    /\ unet_model' = [unet_model EXCEPT !.built = TRUE]
    /\ Event("build", 0)
    /\ pc' = "weights"
    /\ UNCHANGED <<args, fs, listVars, loopVars, volVars, saved, err>>

\* the default weights loaded a second time
LoadDefaultWeightsTwice ==
    /\ pc = "weights"
    /\ args.model = <<>>
    /\ unet_model' = [unet_model EXCEPT !.weights = @ \o <<DefaultModel, DefaultModel>>]
    /\ log' = log \o << <<"weights", 0>>, <<"weights", 0>> >>
    /\ pc' = "discover"
    /\ UNCHANGED <<args, fs, listVars, loopVars, volVars, saved, err>>

\* lines 83-85: the default weights
LoadDefaultWeights ==
    /\ pc = "weights"
    /\ args.model = <<>>
    /\ unet_model' = [unet_model EXCEPT !.weights = Append(@, DefaultModel)]
    /\ Event("weights", 0)
    /\ pc' = "discover"
    /\ UNCHANGED <<args, fs, listVars, loopVars, volVars, saved, err>>

\* lines 86-88: the weights named by --model
LoadUserWeights ==
    /\ pc = "weights"
    /\ args.model # <<>>
    /\ unet_model' = [unet_model EXCEPT !.weights = Append(@, args.model)]
    /\ Event("weights", 0)
    /\ pc' = "discover"
    /\ UNCHANGED <<args, fs, listVars, loopVars, volVars, saved, err>>

\* os.path.isfile(path_images)
IsFile == fs.kind = "file"

\* lines 101-103: a file in the directory case
RaiseExtensionNotSupported ==
    /\ pc = "discover"
    /\ DirectoryCase(Basename(args.path_images))
    /\ IsFile
    /\ err' = "ExtensionNotSupported"
    /\ pc' = "aborted"
    /\ UNCHANGED <<args, fs, unet_model, listVars, loopVars, volVars, saved, log>>

\* line 104, utils.list_images_in_folder raising: no such folder
RaiseFolderNotFound ==
    /\ pc = "discover"
    /\ DirectoryCase(Basename(args.path_images))
    /\ ~IsFile
    /\ fs.kind # "dir"
    /\ err' = "FolderNotFound"
    /\ pc' = "aborted"
    /\ UNCHANGED <<args, fs, unet_model, listVars, loopVars, volVars, saved, log>>

\* lines 104-110: the images of the folder and their output paths
DiscoverFolder ==
    /\ pc = "discover"
    /\ DirectoryCase(Basename(args.path_images))
    /\ ~IsFile
    /\ fs.kind = "dir"
    /\ images_to_segment' = [k \in 1..Len(fs.listing) |-> Join(args.path_images, fs.listing[k])]
    /\ made' = made \cup {path_predictions}
    /\ path_predictions' = PredictionPaths(path_predictions, images_to_segment')
    /\ Event("discover", 0)
    /\ pc' = "loop"
    /\ UNCHANGED <<args, fs, unet_model, loopVars, volVars, saved, err>>

\* line 112: the assertion fails
RaiseFileDoesNotExist ==
    /\ pc = "discover"
    /\ ~DirectoryCase(Basename(args.path_images))
    /\ ~IsFile
    /\ err' = "FileDoesNotExist"
    /\ pc' = "aborted"
    /\ UNCHANGED <<args, fs, unet_model, listVars, loopVars, volVars, saved, log>>

\* lines 112-114: a single image
DiscoverFile ==
    /\ pc = "discover"
    /\ ~DirectoryCase(Basename(args.path_images))
    /\ IsFile
    /\ images_to_segment' = <<args.path_images>>
    /\ path_predictions' = <<path_predictions>>
    /\ Event("discover", 0)
    /\ pc' = "loop"
    /\ UNCHANGED <<args, fs, unet_model, made, loopVars, volVars, saved, err>>

\* an enumerate that never advances its index
EnumIndexStuck(n) == 0

\* the index enumerate yields at position n of the iterator
EnumIndex(n) == n

\* line 120-121: the next (index, (image, output path)) of enumerate(zip(...))
LoopNext ==
    /\ pc = "loop"
    /\ it < Len(Zip(images_to_segment, path_predictions))
    /\ it' = it + 1
    /\ idx' = EnumIndex(it)
    /\ path_image' = Zip(images_to_segment, path_predictions)[it + 1][1]
    /\ path_prediction' = Zip(images_to_segment, path_predictions)[it + 1][2]
    /\ Event("processing", idx' + 1)
    /\ calls' = <<>>
    /\ pc' = "load"
    /\ UNCHANGED <<args, fs, unet_model, listVars, im, aff, aff2, I, W, S, tmp, output, pred,
                   saved, err>>

\* line 120: the iterator is exhausted
LoopExit ==
    /\ pc = "loop"
    /\ it >= Len(Zip(images_to_segment, path_predictions))
    /\ pc' = "alldone"
    /\ UNCHANGED <<args, fs, unet_model, listVars, loopVars, volVars, saved, log, err>>

\* line 165
AllDone ==
    /\ pc = "alldone"
    /\ Event("alldone", 0)
    /\ pc' = "done"
    /\ UNCHANGED <<args, fs, unet_model, listVars, loopVars, volVars, saved, err>>

\* the volume stored in the file at path p
Stored(p) == Volumes[fs.content[CHOOSE k \in 1..Len(images_to_segment) : images_to_segment[k] = p]]

\* line 123, utils.load_volume raising: not a format it reads
RaiseUnknownDataFile ==
    /\ pc = "load"
    /\ ~HasSupportedExt(path_image)
    /\ err' = "UnknownDataFile"
    /\ pc' = "aborted"
    /\ UNCHANGED <<args, fs, unet_model, listVars, loopVars, volVars, saved, log>>

\* line 123
Load ==
    /\ pc = "load"
    /\ HasSupportedExt(path_image)
    /\ im' = LoadVolume(Stored(path_image)).im
    /\ aff' = LoadVolume(Stored(path_image)).aff
    /\ Event("load", it)
    /\ pc' = "ct"
    /\ UNCHANGED <<args, fs, unet_model, listVars, loopVars, aff2, I, W, S, tmp, output, pred,
                   calls, saved, err>>

\* lines 126-129
CtStep ==
    /\ pc = "ct"
    /\ im' = IF args.ct THEN CtClip(im) ELSE im
    /\ Event("ct", it)
    /\ pc' = "resample"
    /\ UNCHANGED <<args, fs, unet_model, listVars, loopVars, aff, aff2, I, W, S, tmp, output,
                   pred, calls, saved, err>>

\* line 132
Resample ==
    /\ pc = "resample"
    /\ im' = ResampleVolume(im, aff).im
    /\ aff' = ResampleVolume(im, aff).aff
    /\ Event("resample", it)
    /\ pc' = "align"
    /\ UNCHANGED <<args, fs, unet_model, listVars, loopVars, aff2, I, W, S, tmp, output, pred,
                   calls, saved, err>>

\* line 135
Align ==
    /\ pc = "align"
    /\ im' = AlignVolumeToRef(im, aff).im
    /\ aff2' = AlignVolumeToRef(im, aff).aff
    /\ Event("align", it)
    /\ pc' = "normalize"
    /\ UNCHANGED <<args, fs, unet_model, listVars, loopVars, aff, I, W, S, tmp, output, pred,
                   calls, saved, err>>

\* lines 138-139
NormalizeStep ==
    /\ pc = "normalize"
    /\ im' = Normalize(im)
    /\ Event("normalize", it)
    /\ pc' = "pad"
    /\ UNCHANGED <<args, fs, unet_model, listVars, loopVars, aff, aff2, I, W, S, tmp, output,
                   pred, calls, saved, err>>

\* lines 142-146
Pad ==
    /\ pc = "pad"
    /\ I' = AddAxes(im)
    /\ W' = PadShape(I'.shape)
    /\ idx' = PadOffset(W', I'.shape)
    /\ S' = PadVolume(W', idx', I')
    /\ Event("pad", it)
    /\ pc' = "predict"
    /\ UNCHANGED <<args, fs, unet_model, listVars, it, path_image, path_prediction, im, aff,
                   aff2, tmp, output, pred, calls, saved, err>>

\* the loaded network
Net == Nets[fs.net]

\* lines 148-150: one prediction
PredictSingle ==
    /\ pc = "predict"
    /\ args.disable_flipping
    /\ output' = Predict(Net, S)
    /\ calls' = Append(calls, S)
    /\ Event("predict", it)
    /\ pc' = "squeeze"
    /\ UNCHANGED <<args, fs, unet_model, listVars, loopVars, im, aff, aff2, I, W, S, tmp, pred,
                   saved, err>>

\* line 153, first operand: unet_model.predict(S)
PredictFirst ==
    /\ pc = "predict"
    /\ ~args.disable_flipping
    /\ tmp' = <<Predict(Net, S)>>
    /\ calls' = Append(calls, S)
    /\ Event("predict", it)
    /\ pc' = "predict2"
    /\ UNCHANGED <<args, fs, unet_model, listVars, loopVars, im, aff, aff2, I, W, S, output,
                   pred, saved, err>>

\* line 153, second operand: unet_model.predict(np.flip(S, axis=1))
PredictFlipped ==
    /\ pc = "predict2"
    /\ calls' = Append(calls, Flip(S, FlipAxis))
    /\ tmp' = Append(tmp, Predict(Net, calls'[Len(calls')]))
    /\ Event("predict", it)
    /\ pc' = "average"
    /\ UNCHANGED <<args, fs, unet_model, listVars, loopVars, im, aff, aff2, I, W, S, output,
                   pred, saved, err>>

\* line 153: flip the second prediction back and average
AverageStep ==
    /\ pc = "average"
    /\ output' = Average(tmp[1], Flip(tmp[2], FlipAxis))
    /\ tmp' = <<>>
    /\ pc' = "squeeze"
    /\ UNCHANGED <<args, fs, unet_model, listVars, loopVars, im, aff, aff2, I, W, S, pred,
                   calls, saved, log, err>>

\* lines 156-157
SqueezeAndScale ==
    /\ pc = "squeeze"
    /\ pred' = ScalePred(Squeeze(output))
    /\ Event("scale", it)
    /\ pc' = "clip"
    /\ UNCHANGED <<args, fs, unet_model, listVars, loopVars, im, aff, aff2, I, W, S, tmp,
                   output, calls, saved, err>>

\* lines 158-159
ClipStep ==
    /\ pc = "clip"
    /\ pred' = ClipPred(pred)
    /\ Event("clip", it)
    /\ pc' = "crop"
    /\ UNCHANGED <<args, fs, unet_model, listVars, loopVars, im, aff, aff2, I, W, S, tmp,
                   output, calls, saved, err>>

\* line 160
CropStep ==
    /\ pc = "crop"
    /\ pred' = Crop(pred, idx, I.shape)
    /\ Event("crop", it)
    /\ pc' = "save"
    /\ UNCHANGED <<args, fs, unet_model, listVars, loopVars, im, aff, aff2, I, W, S, tmp,
                   output, calls, saved, err>>

\* the affine of before the alignment
SaveAffineUnaligned == aff

\* the affine handed to utils.save_volume
SaveAffine == aff2

\* line 163
Save ==
    /\ pc = "save"
    /\ saved' = Append(saved, [path |-> path_prediction, vol |-> pred, aff |-> SaveAffine])
    /\ Event("save", it)
    /\ pc' = "loop"
    /\ UNCHANGED <<args, fs, unet_model, listVars, loopVars, volVars, err>>

Next ==
    \/ BuildUnet
    \/ LoadDefaultWeights
    \/ LoadUserWeights
    \/ RaiseExtensionNotSupported
    \/ RaiseFolderNotFound
    \/ DiscoverFolder
    \/ RaiseFileDoesNotExist
    \/ DiscoverFile
    \/ LoopNext
    \/ LoopExit
    \/ RaiseUnknownDataFile
    \/ Load
    \/ CtStep
    \/ Resample
    \/ Align
    \/ NormalizeStep
    \/ Pad
    \/ PredictSingle
    \/ PredictFirst
    \/ PredictFlipped
    \/ AverageStep
    \/ SqueezeAndScale
    \/ ClipStep
    \/ CropStep
    \/ Save
    \/ AllDone

Spec == Init /\ [][Next]_vars
SpecPaths == InitPaths /\ [][Next]_vars
SpecFolders == (InitFolders \/ InitCommon) /\ [][Next]_vars

\* ------------------------------------------------------------------ claims
Events(step) == SelectSeq(log, LAMBDA e : e[1] = step)
IsPrefix(a, b) == Len(a) <= Len(b) /\ SubSeq(b, 1, Len(a)) = a
PastDiscovery == pc \notin {"build", "weights", "discover"}
InLoopBody ==
    pc \in {"load", "ct", "resample", "align", "normalize", "pad", "predict", "predict2",
            "average", "squeeze", "clip", "crop", "save"}

\* the steps of image k, in pipeline order
StepsOfImage(k) ==
    << <<"processing", k>>, <<"load", k>>, <<"ct", k>>, <<"resample", k>>, <<"align", k>>,
       <<"normalize", k>>, <<"pad", k>> >>
    \o (IF args.disable_flipping THEN << <<"predict", k>> >>
        ELSE << <<"predict", k>>, <<"predict", k>> >>)
    \o << <<"scale", k>>, <<"clip", k>>, <<"crop", k>>, <<"save", k>> >>
RECURSIVE StepsUpTo(_)
StepsUpTo(k) == IF k = 0 THEN <<>> ELSE StepsUpTo(k - 1) \o StepsOfImage(k)
FullRun ==
    << <<"build", 0>>, <<"weights", 0>>, <<"discover", 0>> >>
    \o StepsUpTo(Len(images_to_segment)) \o << <<"alldone", 0>> >>

\* C1: the steps taken so far are always an initial part of the one pipeline
\* order: build, weights (once), discovery, then per image in list order load,
\* preprocess, predict, postprocess, save, the save of image k before the load
\* of image k + 1; a finished run has taken every step, and no image is
\* loaded before the weights.
C1_PipelineOrder ==
    /\ Len(unet_model.weights) <= 1
    /\ Len(Events("weights")) = Len(unet_model.weights)
    /\ pc \notin {"build", "weights"} => Len(unet_model.weights) = 1
    /\ PastDiscovery /\ pc # "aborted" => IsPrefix(log, FullRun)
    /\ pc = "done" => log = FullRun
    /\ Events("load") # <<>> => Len(unet_model.weights) = 1 /\ unet_model.built
C1_Witness == pc = "done" /\ Len(saved) = 2 /\ Len(Events("predict")) = 4

\* C10: the loop visits every (image, output path) pair once, in list order,
\* although idx is overwritten with the padding offsets: iteration k reports
\* image k, loads image k and saves to output path k; a finished run has made
\* one save per discovered image and has printed 'All done!' last.
C10_LoopVisitsEachPairOnce ==
    PastDiscovery /\ pc # "aborted" =>
        LET N == Len(images_to_segment)
        IN  /\ it \in 0..N
            /\ Events("processing") = [k \in 1..it |-> <<"processing", k>>]
            /\ Events("load") = [k \in 1..Len(Events("load")) |-> <<"load", k>>]
            /\ Len(saved) = IF InLoopBody THEN it - 1 ELSE it
            /\ \A k \in 1..Len(saved) : saved[k].path = path_predictions[k]
            /\ InLoopBody =>
                  /\ path_image = images_to_segment[it]
                  /\ path_prediction = path_predictions[it]
                  /\ Len(Events("load")) \in {it - 1, it}
            /\ pc = "ct" => im = LoadVolume(Volumes[fs.content[it]]).im
            /\ pc = "done" =>
                  /\ Len(saved) = N
                  /\ Len(Events("save")) = N
                  /\ log[Len(log)] = <<"alldone", 0>>
                  /\ ~ENABLED Next
C10_Witness ==
    /\ pc = "done"
    /\ Len(saved) = 2
    /\ Len(idx) = 3
    /\ saved[1].path # saved[2].path

\* every voxel coordinate of a spatial shape
Coords(s) == (0..(s[1] - 1)) \X (0..(s[2] - 1)) \X (0..(s[3] - 1))
At(A, c) == A.v[c[1]][c[2]][c[3]]

C6_Padding ==
    pc = "predict" =>
        /\ S.shape = <<1>> \o W \o <<1>>
        /\ \A i \in 1..3 :
              /\ im.shape[i] >= 1
              /\ W[i] % Mult = 0
              /\ W[i] >= im.shape[i]
              /\ W[i] - Mult < im.shape[i]
              /\ 2 * idx[i] <= W[i] - im.shape[i]
              /\ W[i] - im.shape[i] < 2 * idx[i] + 2
              /\ 0 <= idx[i]
              /\ idx[i] + im.shape[i] <= W[i]
        /\ \A c \in Coords(W) :
              IF \A i \in 1..3 : idx[i] <= c[i] /\ c[i] < idx[i] + im.shape[i]
              THEN At(S, c) = At(im, <<c[1] - idx[1], c[2] - idx[2], c[3] - idx[3]>>)
              ELSE At(S, c) = Zero
C6_Witness ==
    /\ pc = "predict"
    /\ im.shape[1] = Mult + 1
    /\ W[1] = 2 * Mult
    /\ idx = <<15, 15, 15>>
    /\ At(S, <<15, 15, 15>>) # Zero \/ At(S, <<16, 15, 15>>) # Zero

\* C7: cropping undoes padding: the cropped volume has the shape of the
\* resampled and aligned image and its voxel (x, y, z) is the voxel
\* (off0 + x, off1 + y, off2 + z) of the scaled and clipped network output, off
\* being the padding offsets; it is saved with the affine aff2 of the alignment.
C7_CropInvertsPadding ==
    [][ /\ pc = "crop" =>
              /\ pred'.shape = im.shape
              /\ \A c \in Coords(im.shape) :
                    LET p == [i \in 1..3 |-> (W[i] - im.shape[i]) \div 2 + c[i]]
                    IN  /\ At(pred', c) = At(pred, p)
                        /\ At(pred', c) =
                              ClipAbove(ClipBelow(RMul(<<Scale255, 1>>, At(output, p))))
                        /\ At(S, p) = At(im, c)
        /\ pc = "save" =>
              /\ Len(saved') = Len(saved) + 1
              /\ saved'[Len(saved')].vol = pred
              /\ saved'[Len(saved')].vol.shape = im.shape
              /\ saved'[Len(saved')].aff = aff2
              /\ saved'[Len(saved')].path = path_prediction ]_vars
C7_Witness ==
    /\ pc = "loop"
    /\ Len(saved) = 1
    /\ saved[1].vol.shape = <<1, 2, 3>>
    /\ saved[1].aff = aff2
    /\ aff2 # aff
    /\ \E c \in Coords(saved[1].vol.shape) : ~IsNaN(At(saved[1].vol, c))

\* C8: after normalization every voxel lies in [0, 1], the smallest voxel is
\* 0 and the largest is 1, also for an image whose voxels are all equal.
C8_NormalizedRange ==
    pc = "pad" =>
        /\ \A a \in Values(im) : RLe(Zero, a) /\ RLe(a, <<1, 1>>)
        /\ NpMin(im) = Zero
        /\ NpMax(im) = <<1, 1>>

\* C9: every voxel of every saved prediction lies in [0, 128].
C9_SavedRange ==
    \A k \in 1..Len(saved) :
        \A a \in Values(saved[k].vol) : RLe(<<ClipLow, 1>>, a) /\ RLe(a, <<ClipHigh, 1>>)

NothingProcessed ==
    /\ Events("load") = <<>>
    /\ Events("predict") = <<>>
    /\ calls = <<>>
    /\ saved = <<>>
NamesAnImage(name) == \E e \in {DotNii, DotMgz, DotNpz} : Contains(name, e)

\* C2: an existing regular file whose extension is none of .nii, .nii.gz,
\* .mgz, .npz ends the run with 'Extension not supported'; no output
\* directory is made and nothing is loaded, predicted or saved.
C2_UnsupportedExtensionRaises ==
    /\ fs.kind = "file"
    /\ ~HasSupportedExt(Basename(args.path_images))
    /\ PastDiscovery
    => /\ pc = "aborted"
       /\ err = "ExtensionNotSupported"
       /\ made = {}
       /\ NothingProcessed

\* C3 as stated: a path_images naming a file that does not exist ends the run
\* with 'File does not exist' before anything is loaded, predicted or saved.
C3_MissingFileRaises ==
    /\ fs.kind = "missing"
    /\ Contains(Basename(args.path_images), <<".">>)
    /\ PastDiscovery
    => /\ pc = "aborted"
       /\ err = "FileDoesNotExist"
       /\ NothingProcessed

\* C3 as amended: when the basename of path_images contains '.nii', '.mgz' or
\* '.npz' and path_images is no existing regular file, the run ends with
\* 'File does not exist' before anything is listed, loaded, predicted or
\* saved, no directory is made, and nothing runs after the error.
C3_MissingImageFileRaises ==
    /\ fs.kind # "file"
    /\ NamesAnImage(Basename(args.path_images))
    /\ PastDiscovery
    => /\ pc = "aborted"
       /\ err = "FileDoesNotExist"
       /\ images_to_segment = <<>>
       /\ made = {}
       /\ NothingProcessed
       /\ ~ENABLED Next
C3_Witness ==
    /\ fs.kind = "missing"
    /\ Basename(args.path_images) = Stem \o DotNii \o DotGz
    /\ pc = "aborted"
    /\ err = "FileDoesNotExist"
    /\ Len(unet_model.weights) = 1

\* the name with '_SynthSR' put once, right before its extension
TaggedOnce(name) ==
    LET ext == IF EndsWith(name, DotNii \o DotGz) THEN DotNii \o DotGz
               ELSE IF EndsWith(name, DotNii) THEN DotNii
               ELSE IF EndsWith(name, DotMgz) THEN DotMgz
               ELSE DotNpz
    IN  SubSeq(name, 1, Len(name) - Len(ext)) \o Tag \o ext

\* C4: in directory mode every image has one output path, in image order,
\* directly inside the made directory path_predictions, named as the image
\* with '_SynthSR' once before the extension; distinct images get distinct
\* output paths.
C4_OutputPaths ==
    /\ fs.kind = "dir"
    /\ ~NamesAnImage(Basename(args.path_images))
    /\ PastDiscovery /\ pc # "aborted"
    => /\ Len(path_predictions) = Len(images_to_segment)
       /\ made = {args.path_predictions}
       /\ \A k \in 1..Len(path_predictions) :
             /\ Dirname(path_predictions[k]) = args.path_predictions
             /\ Basename(path_predictions[k]) = TaggedOnce(Basename(images_to_segment[k]))
       /\ \A j, k \in 1..Len(path_predictions) :
             images_to_segment[j] # images_to_segment[k]
                 => path_predictions[j] # path_predictions[k]

====
